---- MODULE Spec2Model ----
(***************************************************************************)
(* A model of the two scripts of the repository.                            *)
(*                                                                          *)
(*   youtube_summarizer.py : the with_retries decorator (its Fibonacci      *)
(*       backoff generator and its retry wrapper), ask_claude,              *)
(*       download_captions, main and the __main__ block.                    *)
(*   tool_use.py : handle_tool_use and its two capabilities,                *)
(*       ask_claude_with_retries, ask_claude and the dispatch loop of main. *)
(*                                                                          *)
(* Text is modelled as a sequence of tokens, so that concatenation,         *)
(* startswith and "in" are computed and not assumed.  A Python dict is a    *)
(* set of <<key, value>> pairs.  Python lists that the code shares by       *)
(* reference live in a heap of list objects.                                *)
(***************************************************************************)
EXTENDS Integers, Sequences, FiniteSets, TLC

\* ------------------------------------------------------------------ bounds
\* transient failures the remote assistant may answer one wrapper call with
MaxRetries == 13
\* calls of the wrapped function made by the retry harness
MaxCalls == 2
\* the ceilings the decorator is applied with are -1 .. MaxCeiling, 60 and inf
MaxCeiling == 3
\* tool-use replies the remote assistant gives before its final reply
MaxToolRounds == 2
\* sleeps of ask_claude_with_retries that are told apart
MaxSleeps == 12
\* requests of one run the remote assistant answers with a rate-limit error
MaxRateLimits == 1

\* ------------------------------------------------------- program constants
\* @with_retries(max_wait_time=60)
AskClaudeMaxWait == 60
\* next(sleep_time_generator) + 30
ServerErrorPenalty == 30

VARIABLES
    \* ---- youtube_summarizer.py
    pc,             \* position of the summarizer process / of the harness
    argv,           \* sys.argv
    exit_status,    \* -1 while running, else the status the process exits with
    log,            \* logger.error records, counted per message
    res,            \* what ydl.extract_info answered (download_captions)
    captions,       \* main's local: text, or None
    downloads,      \* calls of ydl.extract_info / requests.get made
    requests,       \* calls of client.beta.tools.messages.create made
    \* ---- with_retries
    max_wait_time,  \* the decorator's argument
    wpc,            \* position inside wrapper
    gen,            \* sleep_time_generator: the frame of fibonacci_wait_times
    sleep_time,     \* wrapper's local sleep_time
    yielded,        \* values next(sleep_time_generator) returned in this call
    outcome,        \* how the last attempt of func ended
    result,         \* what wrapper returned to its caller
    retries,        \* transient failures handled in this call
    sleeps,         \* time.sleep calls made in this call
    calls,          \* calls of wrapper begun
    args,           \* the positional arguments of the call: new_message
    \* ---- tool_use.py
    tpc,            \* position of the tool-use process
    tool_rounds,    \* tool-use replies the remote assistant has yet to give
    user_content,   \* main's local user_content
    new_message,    \* main's local new_message
    messages,       \* main's local messages: a reference to a list object
    heap,           \* the list objects created so far, by reference
    response,       \* main's local response
    sent,           \* the requests made: the list passed, and its turns then
    tool_calls,     \* the calls of handle_tool_use made, with their results
    error,          \* the exception main ended with, or "none"
    stdout,         \* whether the final print ran
    tu_sleeps       \* time.sleep calls of ask_claude_with_retries

ytvars == <<pc, argv, exit_status, log, res, captions, downloads, requests>>
wvars == <<max_wait_time, wpc, gen, sleep_time, yielded, outcome, result,
           retries, sleeps, calls, args>>
tuvars == <<tpc, tool_rounds, user_content, new_message, messages, heap, response,
            sent, tool_calls, error, stdout, tu_sleeps>>
vars == <<ytvars, wvars, tuvars>>

\* ------------------------------------------------------------------ values
None == <<"None">>

\* float("inf") and the integer ceilings
Inf == [inf |-> TRUE, v |-> 0]
Finite(n) == [inf |-> FALSE, v |-> n]
\* x <= m for an integer x and a ceiling m
LeqCeiling(x, m) == m.inf \/ x <= m.v

Ceilings == {Finite(n) : n \in (-1 .. MaxCeiling) \cup {AskClaudeMaxWait}} \cup {Inf}

\* ------------------------------------------------- fibonacci_wait_times
\* The generator's frame: a, b and whether it has run to its first yield.
GenFresh == [a |-> 0, b |-> 1, started |-> FALSE]

\* GenResume with the frozen generator starting over at (0, 1)
GenResumeRestarts(g, m) ==
    IF ~g.started THEN [g EXCEPT !.started = TRUE]
    ELSE IF LeqCeiling(g.b, m) THEN [g EXCEPT !.a = g.b, !.b = g.a + g.b]
    ELSE [g EXCEPT !.a = 0, !.b = 1]

\* GenResume with the guard of the update on a, the value just yielded
GenResumeGuardsOnA(g, m) ==
    IF ~g.started THEN [g EXCEPT !.started = TRUE]
    ELSE IF LeqCeiling(g.a, m) THEN [g EXCEPT !.a = g.b, !.b = g.a + g.b]
    ELSE g

\* GenResume with the update guarded by b < max_wait_time
GenResumeStrict(g, m) ==
    IF ~g.started THEN [g EXCEPT !.started = TRUE]
    ELSE IF m.inf \/ g.b < m.v THEN [g EXCEPT !.a = g.b, !.b = g.a + g.b]
    ELSE g

\* one next(): resume after the yield (the guarded update), loop, yield a
GenResume(g, m) ==
    IF ~g.started THEN [g EXCEPT !.started = TRUE]
    ELSE IF LeqCeiling(g.b, m) THEN [g EXCEPT !.a = g.b, !.b = g.a + g.b]
    ELSE g

\* ServerErrorSleepTime without the penalty
ServerErrorSleepTimeNoPenalty(y) == y

\* the sleep each except clause of wrapper computes from the yielded value
RateLimitSleepTime(y) == y
ServerErrorSleepTime(y) == y + ServerErrorPenalty

\* ------------------------------------------------------------ the logger
\* logger.error(...): the log is kept as the set of messages logged
LogError(l, msg) == l \cup {msg}

\* --------------------------------------------------------------- strings
StartsWith(s, p) == Len(s) >= Len(p) /\ SubSeq(s, 1, Len(p)) = p

\* "https://www.youtube.com/watch?v=", in two tokens
UrlPrefix == <<"https://www.youtube.com/", "watch?v=">>

Urls == { UrlPrefix \o <<"dQw4">>,
          UrlPrefix,
          <<"https://www.youtube.com/">>,
          <<"https://www.youtube.com/", "playlist?list=", "dQw4">>,
          <<"see ", "https://www.youtube.com/", "watch?v=", "dQw4">>,
          <<"http://example.com/">>,
          <<>> }

\* sys.argv: the script's name, then the command-line arguments
Argvs == { <<<<"youtube_summarizer.py">>>> }
         \cup { <<<<"youtube_summarizer.py">>, u>> : u \in Urls }
         \cup { <<<<"youtube_summarizer.py">>, u, <<"--verbose">>>> : u \in Urls }

\* ---------------------------------------------------- the caption source
\* res["requested_subtitles"] is None or a dict from language to an entry
\* that holds the track's url, or to None
SubsNone == [kind |-> "None", items |-> {}]
SubsDict(items) == [kind |-> "dict", items |-> items]
CaptionAnswers == { SubsNone, SubsDict({}), SubsDict({<<"en", None>>}),
                    SubsDict({<<"en", <<"https://captions/", "en.vtt">>>>}) }

\* Python truth of res["requested_subtitles"]
SubsTruthy(rs) == rs.kind = "dict" /\ rs.items # {}
\* k in d, and d[k], for a dict d
HasKey(d, k) == \E it \in d : it[1] = k
DictGet(d, k) == (CHOOSE it \in d : it[1] = k)[2]
\* line 159: res["requested_subtitles"] and res["requested_subtitles"]["en"]
HasEnglish(rs) ==
    SubsTruthy(rs) /\ HasKey(rs.items, "en") /\ DictGet(rs.items, "en") # None

\* response.text of the subtitle download
CaptionTexts == { <<>>, <<"WEBVTT", "hello world">> }

\* NotCaptions testing for the empty string only
NotCaptionsEmptyOnly(c) == c = <<>>

\* Python's "not captions": None and the empty string are false
NotCaptions(c) == c = None \/ c = <<>>

\* the replies of the remote assistant to the summarizer
Responses == { <<"# Summary">>, <<"# scratchpad", "# Summary">> }
NoResult == [response |-> None, new_messages |-> <<>>]

\* the turn main builds from the captions (lines 173-179)
SummaryRequest(c) ==
    [role |-> "user", content |-> <<c, <<"Can you summarize the video?">>>>]

\* ================================================= with_retries: wrapper
\* WrapperEnter with one generator for all the calls of the wrapped function
WrapperEnterSharedGenerator(a) ==
    /\ wpc' = "try"
    /\ gen' = gen
    /\ args' = a
    /\ sleep_time' = 0
    /\ yielded' = <<>>
    /\ outcome' = "none"
    /\ result' = NoResult
    /\ retries' = 0
    /\ sleeps' = 0
    /\ calls' = calls + 1
    /\ UNCHANGED max_wait_time

\* wrapper is entered: a fresh generator (line 86), nothing tried yet
WrapperEnter(a) ==
    /\ wpc' = "try"
    /\ gen' = GenFresh
    /\ args' = a
    /\ sleep_time' = 0
    /\ yielded' = <<>>
    /\ outcome' = "none"
    /\ result' = NoResult
    /\ retries' = 0
    /\ sleeps' = 0
    /\ calls' = calls + 1
    /\ UNCHANGED max_wait_time

\* ask_claude (lines 126-134) up to the remote call: messages is the default
\* [], so new_messages = [] + [new_message]
NewMessages(a) == <<>> \o <<a>>

\* line 89, func returns: wrapper returns what func returned
AttemptReturns ==
    /\ wpc = "try"
    /\ \E r \in Responses :
         result' = [response |-> r, new_messages |-> NewMessages(args)]
    /\ requests' = requests + 1
    /\ outcome' = "ok"
    /\ wpc' = "returned"
    /\ UNCHANGED <<pc, argv, exit_status, log, res, captions, downloads>>
    /\ UNCHANGED <<max_wait_time, gen, sleep_time, yielded, retries, sleeps,
                   calls, args>>
    /\ UNCHANGED tuvars

\* AttemptRateLimited giving up at the third rate-limit failure
AttemptRateLimitedGivesUp ==
    /\ wpc = "try"
    /\ retries < MaxRetries
    /\ requests' = requests + 1
    /\ outcome' = "rate_limit"
    /\ gen' = GenResume(gen, max_wait_time)
    /\ yielded' = Append(yielded, gen'.a)
    /\ sleep_time' = RateLimitSleepTime(gen'.a)
    /\ log' = LogError(log, "Rate Limit Error")
    /\ retries' = retries + 1
    /\ wpc' = IF retries < 2 THEN "sleep" ELSE "raised"
    /\ UNCHANGED <<pc, argv, exit_status, res, captions, downloads>>
    /\ UNCHANGED <<max_wait_time, result, sleeps, calls, args>>
    /\ UNCHANGED tuvars

\* lines 90-95: func raised RateLimitError
AttemptRateLimited ==
    /\ wpc = "try"
    /\ retries < MaxRetries
    /\ requests' = requests + 1
    /\ outcome' = "rate_limit"
    /\ gen' = GenResume(gen, max_wait_time)
    /\ yielded' = Append(yielded, gen'.a)
    /\ sleep_time' = RateLimitSleepTime(gen'.a)
    /\ log' = LogError(log, "Rate Limit Error")
    /\ retries' = retries + 1
    /\ wpc' = "sleep"
    /\ UNCHANGED <<pc, argv, exit_status, res, captions, downloads>>
    /\ UNCHANGED <<max_wait_time, result, sleeps, calls, args>>
    /\ UNCHANGED tuvars

\* lines 98-105: func raised InternalServerError
AttemptServerError ==
    /\ wpc = "try"
    /\ retries < MaxRetries
    /\ requests' = requests + 1
    /\ outcome' = "server_error"
    /\ gen' = GenResume(gen, max_wait_time)
    /\ yielded' = Append(yielded, gen'.a)
    /\ sleep_time' = ServerErrorSleepTime(gen'.a)
    /\ log' = LogError(log, "Internal Server Error")
    /\ retries' = retries + 1
    /\ wpc' = "sleep"
    /\ UNCHANGED <<pc, argv, exit_status, res, captions, downloads>>
    /\ UNCHANGED <<max_wait_time, result, sleeps, calls, args>>
    /\ UNCHANGED tuvars

\* AttemptRaisesOther with a bare except clause that backs off and retries
AttemptRaisesOtherRetried ==
    /\ wpc = "try"
    /\ retries < MaxRetries
    /\ requests' = requests + 1
    /\ outcome' = "other"
    /\ gen' = GenResume(gen, max_wait_time)
    /\ yielded' = Append(yielded, gen'.a)
    /\ sleep_time' = RateLimitSleepTime(gen'.a)
    /\ retries' = retries + 1
    /\ wpc' = "sleep"
    /\ UNCHANGED <<pc, argv, exit_status, log, res, captions, downloads>>
    /\ UNCHANGED <<max_wait_time, result, sleeps, calls, args>>
    /\ UNCHANGED tuvars

\* line 89, func raised anything else: no except clause matches
AttemptRaisesOther ==
    /\ wpc = "try"
    /\ requests' = requests + 1
    /\ outcome' = "other"
    /\ wpc' = "raised"
    /\ UNCHANGED <<pc, argv, exit_status, log, res, captions, downloads>>
    /\ UNCHANGED <<max_wait_time, gen, sleep_time, yielded, result, retries,
                   sleeps, calls, args>>
    /\ UNCHANGED tuvars

\* lines 96-97 and 106-107: time.sleep(sleep_time); continue
WrapperSleep ==
    /\ wpc = "sleep"
    /\ sleeps' = sleeps + 1
    /\ wpc' = "try"
    /\ UNCHANGED ytvars
    /\ UNCHANGED <<max_wait_time, gen, sleep_time, yielded, outcome, result,
                   retries, calls, args>>
    /\ UNCHANGED tuvars

Wrapper ==
    \/ AttemptReturns
    \/ AttemptRateLimited
    \/ AttemptServerError
    \/ AttemptRaisesOther
    \/ WrapperSleep

\* ================================================ the summarizer process
\* lines 186-190
ExitBadArgc ==
    /\ pc = "start"
    /\ Len(argv) # 2
    /\ log' = LogError(log, "Error: Please provide a valid YouTube URL as a command line argument.")
    /\ exit_status' = 1
    /\ pc' = "exited"
    /\ UNCHANGED <<argv, res, captions, downloads, requests>>
    /\ UNCHANGED wvars
    /\ UNCHANGED tuvars

\* lines 192-195
ExitBadUrl ==
    /\ pc = "start"
    /\ Len(argv) = 2
    /\ ~StartsWith(argv[2], UrlPrefix)
    /\ log' = LogError(log, "Error: Invalid YouTube URL format.")
    /\ exit_status' = 1
    /\ pc' = "exited"
    /\ UNCHANGED <<argv, res, captions, downloads, requests>>
    /\ UNCHANGED wvars
    /\ UNCHANGED tuvars

\* CallMain without the test of the URL's prefix
CallMainAnyUrl ==
    /\ pc = "start"
    /\ Len(argv) = 2
    /\ pc' = "main"
    /\ UNCHANGED <<argv, exit_status, log, res, captions, downloads, requests>>
    /\ UNCHANGED wvars
    /\ UNCHANGED tuvars

\* line 197
CallMain ==
    /\ pc = "start"
    /\ Len(argv) = 2
    /\ StartsWith(argv[2], UrlPrefix)
    /\ pc' = "main"
    /\ UNCHANGED <<argv, exit_status, log, res, captions, downloads, requests>>
    /\ UNCHANGED wvars
    /\ UNCHANGED tuvars

\* line 170 and download_captions (lines 147-166)
DownloadCaptions ==
    /\ pc = "main"
    /\ \E rs \in CaptionAnswers :
         /\ res' = rs
         /\ IF HasEnglish(rs)
            THEN /\ \E t \in CaptionTexts : captions' = t
                 /\ downloads' = downloads + 2
                 /\ log' = log
            ELSE /\ captions' = None
                 /\ downloads' = downloads + 1
                 /\ log' = LogError(log, "This YouTube video does not have any English captions")
    /\ pc' = "got_captions"
    /\ UNCHANGED <<argv, exit_status, requests>>
    /\ UNCHANGED wvars
    /\ UNCHANGED tuvars

\* lines 171-172: main returns, the script ends
MainReturnsEarly ==
    /\ pc = "got_captions"
    /\ NotCaptions(captions)
    /\ exit_status' = 0
    /\ pc' = "exited"
    /\ UNCHANGED <<argv, log, res, captions, downloads, requests>>
    /\ UNCHANGED wvars
    /\ UNCHANGED tuvars

\* lines 173-180: the call of the decorated ask_claude
MainAsk ==
    /\ pc = "got_captions"
    /\ ~NotCaptions(captions)
    /\ WrapperEnter(SummaryRequest(captions))
    /\ pc' = "ask"
    /\ UNCHANGED <<argv, exit_status, log, res, captions, downloads, requests>>
    /\ UNCHANGED tuvars

\* lines 180-182: the reply is printed and the script ends
MainPrint ==
    /\ pc = "ask"
    /\ wpc = "returned"
    /\ exit_status' = 0
    /\ pc' = "exited"
    /\ UNCHANGED <<argv, log, res, captions, downloads, requests>>
    /\ UNCHANGED wvars
    /\ UNCHANGED tuvars

\* line 180: the failure wrapper let through leaves main and ends the script
MainUncaught ==
    /\ pc = "ask"
    /\ wpc = "raised"
    /\ exit_status' = 1
    /\ pc' = "exited"
    /\ UNCHANGED <<argv, log, res, captions, downloads, requests>>
    /\ UNCHANGED wvars
    /\ UNCHANGED tuvars

\* ======================================================= tool_use.py
\* ---- the values of a conversation
\* a content segment; the fields a segment type lacks hold a filler
TextBlock(t) ==
    [type |-> "text", text |-> t, id |-> 0, name |-> "", input |-> {},
     tool_use_id |-> 0, content |-> <<>>]
ToolUseBlock(i, n, inp) ==
    [type |-> "tool_use", text |-> <<>>, id |-> i, name |-> n, input |-> inp,
     tool_use_id |-> 0, content |-> <<>>]
ToolResultBlock(i, c) ==
    [type |-> "tool_result", text |-> <<>>, id |-> 0, name |-> "", input |-> {},
     tool_use_id |-> i, content |-> c]

\* a turn's content is a str or a list of segments
StrContent(t) == [kind |-> "str", text |-> t, blocks |-> <<>>]
ListContent(bs) == [kind |-> "list", text |-> <<>>, blocks |-> bs]
Turn(r, c) == [role |-> r, content |-> c]

NoResponse == [stop_reason |-> "none", content |-> <<>>]

\* line 163
FirstQuestion == <<"I want to go see the Percy Balloon.", " Should I go?">>

\* ---- the remote assistant
\* the inputs it may hand a capability: dicts as sets of <<key, value>>
ToolInputs == { {<<"location", <<"near ", "Northsborough">>>>},
                {<<"topic", <<"Percy Balloon">>>>},
                {} }
ToolNames == {"get_weather", "get_facts", "get_time"}

\* a tool-use reply before its identifiers are known: whether a text segment
\* leads it, the first invocation and whether a second one follows it
ReplyShapes ==
    [text : BOOLEAN, name : ToolNames, input : ToolInputs, second : BOOLEAN]

\* the reply of round r built from a shape; identifiers are unique
ToolUseReply(sh, r) ==
    [stop_reason |-> "tool_use",
     content |->
        (IF sh.text THEN <<TextBlock(<<"<scratchpad>">>)>> ELSE <<>>)
        \o <<ToolUseBlock(10 * r + 1, sh.name, sh.input)>>
        \o (IF sh.second
            THEN <<ToolUseBlock(10 * r + 2, "get_weather",
                                {<<"location", <<"Boston, MA">>>>})>>
            ELSE <<>>)]

\* a reply that ends the exchange
FinalReply(reason) ==
    [stop_reason |-> reason, content |-> <<TextBlock(<<"<response>">>)>>]
FinalReasons == {"end_turn", "max_tokens"}

\* the state in which the tool-use script has not run
ToolUseFresh ==
    /\ tpc = "loop"
    /\ user_content = StrContent(FirstQuestion)
    /\ new_message = Turn("user", StrContent(<<>>))
    /\ messages = 1
    /\ heap = << <<>> >>
    /\ response = NoResponse
    /\ sent = <<>>
    /\ tool_calls = <<>>
    /\ error = "none"
    /\ stdout = FALSE
    /\ tu_sleeps = 0

ToolUseIdle ==
    /\ ToolUseFresh
    /\ tool_rounds = 0

\* the state in which no wrapper call has been made
WrapperIdle ==
    /\ wpc = "idle"
    /\ gen = GenFresh
    /\ args = SummaryRequest(<<>>)
    /\ sleep_time = 0
    /\ yielded = <<>>
    /\ outcome = "none"
    /\ result = NoResult
    /\ retries = 0
    /\ sleeps = 0
    /\ calls = 0

SummarizerInit ==
    /\ pc = "start"
    /\ argv \in Argvs
    /\ exit_status = -1
    /\ log = {}
    /\ res = SubsNone
    /\ captions = None
    /\ downloads = 0
    /\ requests = 0
    /\ max_wait_time = Finite(AskClaudeMaxWait)
    /\ WrapperIdle
    /\ ToolUseIdle

SummarizerNext ==
    \/ ExitBadArgc
    \/ ExitBadUrl
    \/ CallMain
    \/ DownloadCaptions
    \/ MainReturnsEarly
    \/ MainAsk
    \/ MainPrint
    \/ MainUncaught
    \/ Wrapper

SpecSummarizer == SummarizerInit /\ [][SummarizerNext]_vars

\* ===================================== the decorator, applied and called
\* with_retries(max_wait_time)(ask_claude) called MaxCalls times in a row
HarnessCall ==
    /\ pc = "harness"
    /\ wpc \in {"idle", "returned", "raised"}
    /\ calls < MaxCalls
    /\ \E t \in CaptionTexts \ {<<>>} : WrapperEnter(SummaryRequest(t))
    /\ UNCHANGED ytvars
    /\ UNCHANGED tuvars

RetryInit ==
    /\ pc = "harness"
    /\ argv = <<<<"youtube_summarizer.py">>>>
    /\ exit_status = -1
    /\ log = {}
    /\ res = SubsNone
    /\ captions = None
    /\ downloads = 0
    /\ requests = 0
    /\ max_wait_time \in Ceilings
    /\ WrapperIdle
    /\ ToolUseIdle

RetryNext ==
    \/ HarnessCall
    \/ Wrapper

SpecRetry == RetryInit /\ [][RetryNext]_vars

\* ================================================ tool_use.py: the code
\* "Northsborough" in input, on tokens
Contains(s, tok) == \E i \in 1 .. Len(s) : s[i] = tok

\* get_weather (lines 58-60)
GetWeather(input) ==
    IF Contains(input, "Northsborough")
    THEN <<"Did you mean Northborough, MA?">>
    ELSE <<"It's 70 and sunny in ">> \o input \o <<"!">>

\* get_facts (line 73)
GetFacts(input) ==
    <<"Here are some facts about ">> \o input
    \o <<":\n- It is the most sought-after attraction in all of ",
         "Northsborough, New Hampshire", "\n- 90% of participants love it!",
         "\n- ", "It's purple", "\n- It is located in Northsborough, ...">>

Returned(v) == [raised |-> "none", value |-> v]
Raised(e) == [raised |-> e, value |-> <<>>]

\* HandleToolUse without its default case
HandleToolUseNoDefault(tool_name, input) ==
    CASE tool_name = "get_facts" /\ HasKey(input, "topic") ->
            Returned(GetFacts(DictGet(input, "topic")))
      [] tool_name # "get_facts" /\ HasKey(input, "location") ->
            Returned(GetWeather(DictGet(input, "location")))
      [] OTHER -> Raised("KeyError")

\* HandleToolUse reading the input with a default instead of input[key]
HandleToolUseDefaultsKey(tool_name, input) ==
    CASE tool_name = "get_weather" ->
            IF HasKey(input, "location")
            THEN Returned(GetWeather(DictGet(input, "location")))
            ELSE Returned(<<"n/a">>)
      [] tool_name = "get_facts" ->
            IF HasKey(input, "topic")
            THEN Returned(GetFacts(DictGet(input, "topic")))
            ELSE Returned(<<"n/a">>)
      [] OTHER -> Returned(<<"n/a">>)

\* handle_tool_use (lines 37-45); input[key] raises KeyError without the key
HandleToolUse(tool_name, input) ==
    CASE tool_name = "get_weather" ->
            IF HasKey(input, "location")
            THEN Returned(GetWeather(DictGet(input, "location")))
            ELSE Raised("KeyError")
      [] tool_name = "get_facts" ->
            IF HasKey(input, "topic")
            THEN Returned(GetFacts(DictGet(input, "topic")))
            ELSE Raised("KeyError")
      [] OTHER -> Returned(<<"n/a">>)

\* next(block for block in content if block.type == t): the index of the
\* first such segment, 0 where next() raises StopIteration
FirstOfType(content, t) ==
    IF \E i \in 1 .. Len(content) : content[i].type = t
    THEN CHOOSE i \in 1 .. Len(content) :
            /\ content[i].type = t
            /\ \A j \in 1 .. i - 1 : content[j].type # t
    ELSE 0

\* AskClaudeNewMessages sending the new turn alone
AskClaudeNewMessagesAlone(msgs, m) == <<m>>

\* ask_claude, line 111: a new list object
AskClaudeNewMessages(msgs, m) == msgs \o <<m>>

\* ListAppend on a copy of the list: the list object is left as it was
ListAppendToCopy(h, ref, x) == h

\* list.append on the list object ref
ListAppend(h, ref, x) == [h EXCEPT ![ref] = Append(h[ref], x)]

\* lines 167-168: the turn is built and ask_claude_with_retries is called
MainCall ==
    /\ tpc = "loop"
    /\ new_message' = Turn("user", user_content)
    /\ tpc' = "retries_try"
    /\ UNCHANGED <<tool_rounds, user_content, messages, heap, response, sent,
                   tool_calls, error, stdout, tu_sleeps>>
    /\ UNCHANGED <<ytvars, wvars>>

\* the request ask_claude makes (lines 111-147): a new list is built, passed
\* to the remote call and recorded
RequestMade ==
    /\ heap' = Append(heap, AskClaudeNewMessages(heap[messages], new_message))
    /\ sent' = Append(sent, [list |-> Len(heap) + 1,
                             turns |-> AskClaudeNewMessages(heap[messages],
                                                            new_message)])

\* the remote assistant's answer to request number r: a tool-use reply while
\* it has some to give, then a reply whose stop reason is not tool_use
RemoteReplies(r) ==
    IF tool_rounds = 0
    THEN { FinalReply(e) : e \in FinalReasons }
    ELSE { ToolUseReply(sh, r) : sh \in ReplyShapes }

\* line 93 with ask_claude (lines 111-148) returning, and the assignment of
\* line 168: main's messages now names the list ask_claude built
AskClaudeReturns ==
    /\ tpc = "retries_try"
    /\ RequestMade
    /\ \E reply \in RemoteReplies(Len(sent) + 1) : response' = reply
    /\ tool_rounds' = IF tool_rounds = 0 THEN 0 ELSE tool_rounds - 1
    /\ messages' = Len(heap) + 1
    /\ tpc' = "reply"
    /\ UNCHANGED <<user_content, new_message, tool_calls, error, stdout,
                   tu_sleeps>>
    /\ UNCHANGED <<ytvars, wvars>>

\* line 93 with the remote call raising RateLimitError, lines 94-95
AskClaudeRateLimited ==
    /\ tpc = "retries_try"
    /\ tu_sleeps < MaxRateLimits
    /\ RequestMade
    /\ tpc' = "retries_sleep"
    /\ UNCHANGED <<tool_rounds, user_content, new_message, messages, response,
                   tool_calls, error, stdout, tu_sleeps>>
    /\ UNCHANGED <<ytvars, wvars>>

\* line 93 with the remote call raising anything else: it leaves main
AskClaudeRaisesOther ==
    /\ tpc = "retries_try"
    /\ RequestMade
    /\ error' = "APIError"
    /\ tpc' = "crashed"
    /\ UNCHANGED <<tool_rounds, user_content, new_message, messages, response,
                   tool_calls, stdout, tu_sleeps>>
    /\ UNCHANGED <<ytvars, wvars>>

\* lines 96-97: time.sleep(sleep_time); continue
RetrySleep ==
    /\ tpc = "retries_sleep"
    /\ tu_sleeps' = IF tu_sleeps < MaxSleeps THEN tu_sleeps + 1 ELSE tu_sleeps
    /\ tpc' = "retries_try"
    /\ UNCHANGED <<tool_rounds, user_content, new_message, messages, heap, response,
                   sent, tool_calls, error, stdout>>
    /\ UNCHANGED <<ytvars, wvars>>

\* lines 170-186 for a tool-use reply: the exception raised, if any, the call
\* of handle_tool_use made, if any, and the user_content that results
DispatchOutcome(content) ==
    LET t == FirstOfType(content, "text")
        u == FirstOfType(content, "tool_use")
    IN  IF Len(content) > 1 /\ t = 0
        THEN [error |-> "StopIteration", calls |-> <<>>, content |-> <<>>]
        ELSE IF u = 0
        THEN [error |-> "StopIteration", calls |-> <<>>, content |-> <<>>]
        ELSE LET r == HandleToolUse(content[u].name, content[u].input)
                 call == [id |-> content[u].id, name |-> content[u].name,
                          input |-> content[u].input, raised |-> r.raised,
                          value |-> r.value]
             IN  IF r.raised # "none"
                 THEN [error |-> r.raised, calls |-> <<call>>, content |-> <<>>]
                 ELSE [error |-> "none", calls |-> <<call>>,
                       content |-> <<ToolResultBlock(content[u].id, r.value)>>]

\* lines 169-186: the assistant turn is appended and the capability run
MainDispatch ==
    /\ tpc = "reply"
    /\ response.stop_reason = "tool_use"
    /\ heap' = ListAppend(heap, messages,
                          Turn("assistant", ListContent(response.content)))
    /\ LET o == DispatchOutcome(response.content)
       IN  /\ tool_calls' = tool_calls \o o.calls
           /\ error' = o.error
           /\ IF o.error = "none"
              THEN /\ user_content' = ListContent(o.content)
                   /\ tpc' = "loop"
              ELSE /\ user_content' = user_content
                   /\ tpc' = "crashed"
    /\ UNCHANGED <<tool_rounds, new_message, messages, response, sent, stdout,
                   tu_sleeps>>
    /\ UNCHANGED <<ytvars, wvars>>

\* lines 169, 187-191: any other reply ends the loop and is printed
MainFinish ==
    /\ tpc = "reply"
    /\ response.stop_reason # "tool_use"
    /\ heap' = ListAppend(heap, messages,
                          Turn("assistant", ListContent(response.content)))
    /\ stdout' = TRUE
    /\ tpc' = "done"
    /\ UNCHANGED <<tool_rounds, user_content, new_message, messages, response, sent,
                   tool_calls, error, tu_sleeps>>
    /\ UNCHANGED <<ytvars, wvars>>

\* lines 90, 94-95: the try block raises RateLimitError before line 93
RaiseRateLimit ==
    /\ tpc = "retries_try"
    /\ tpc' = "retries_sleep"
    /\ UNCHANGED <<tool_rounds, user_content, new_message, messages, heap, response,
                   sent, tool_calls, error, stdout, tu_sleeps>>
    /\ UNCHANGED <<ytvars, wvars>>

\* line 90 where the library's RateLimitError cannot be built from a message
\* alone: the TypeError is not caught and leaves main
RaiseTypeError ==
    /\ tpc = "retries_try"
    /\ error' = "TypeError"
    /\ tpc' = "crashed"
    /\ UNCHANGED <<tool_rounds, user_content, new_message, messages, heap, response,
                   sent, tool_calls, stdout, tu_sleeps>>
    /\ UNCHANGED <<ytvars, wvars>>

\* the summarizer is not running
SummarizerIdle ==
    /\ pc = "idle"
    /\ argv = <<<<"youtube_summarizer.py">>>>
    /\ exit_status = -1
    /\ log = {}
    /\ res = SubsNone
    /\ captions = None
    /\ downloads = 0
    /\ requests = 0
    /\ max_wait_time = Finite(AskClaudeMaxWait)
    /\ WrapperIdle

ToolUseInit ==
    /\ SummarizerIdle
    /\ ToolUseFresh
    /\ tool_rounds \in 0 .. MaxToolRounds

\* ---- tool_use.py as it is written
ToolUseNext ==
    \/ MainCall
    \/ RaiseRateLimit
    \/ RaiseTypeError
    \/ RetrySleep

SpecToolUse == ToolUseInit /\ [][ToolUseNext]_vars

\* the script is scheduled as long as it has a step to take
FairSpecToolUse == SpecToolUse /\ WF_vars(ToolUseNext)

\* ---- the dispatch loop with ask_claude reached: line 93 in the place of
\* line 90, which is what ask_claude_with_retries documents
DispatchNext ==
    \/ MainCall
    \/ AskClaudeReturns
    \/ AskClaudeRateLimited
    \/ AskClaudeRaisesOther
    \/ RetrySleep
    \/ MainDispatch
    \/ MainFinish

SpecDispatch == ToolUseInit /\ [][DispatchNext]_vars

\* ================================================================ claims
IsPrefix(s, t) == Len(s) <= Len(t) /\ SubSeq(t, 1, Len(s)) = s
Last(s) == s[Len(s)]
Transient == {"rate_limit", "server_error"}

\* C1: with a remote assistant that gives finitely many tool-use replies and
\* then a reply whose stop reason is not tool_use, main of tool_use.py
\* eventually reaches DONE and prints the reply.
C1_DispatchLoopTerminates == <>(tpc = "done" /\ stdout)

\* C2: the wrapper never gives up on transient failures.  A rate-limit or
\* server failure of an attempt always leads to a sleep and the sleep to the
\* next attempt; the wrapper is left only by an attempt that returned, whose
\* result is what the caller gets, or by an attempt that raised something
\* else; an attempt that succeeds makes the wrapper return at once.
C2_RetriesUntilSettled ==
    /\ [](/\ wpc = "returned" =>
                /\ outcome = "ok"
                /\ result.response \in Responses
                /\ result.new_messages = <<args>>
          /\ wpc = "raised" => outcome = "other"
          /\ wpc = "sleep" => outcome \in Transient /\ sleeps = retries - 1
          /\ wpc = "try" => sleeps = retries)
    /\ [][(requests' = requests + 1 /\ outcome' \in Transient)
            => (wpc' = "sleep" /\ retries' = retries + 1)]_vars
    /\ [][wpc = "sleep" => (wpc' = "try" /\ sleeps' = sleeps + 1)]_vars
    /\ [][(requests' = requests + 1 /\ outcome' = "ok")
            => wpc' = "returned"]_vars

\* C2's case: the wrapper returned after MaxRetries transient failures in a
\* row, having slept after each
C2_Witness ==
    /\ wpc = "returned"
    /\ retries = MaxRetries
    /\ sleeps = MaxRetries
    /\ Len(yielded) = MaxRetries

\* C3: an attempt that raises a failure that is neither a rate-limit nor a
\* server error ends the wrapper at once: no sleep, the generator is not
\* advanced, and no further attempt is made in that call.
C3_NonTransientPropagates ==
    /\ [][(requests' = requests + 1 /\ outcome' = "other")
            => /\ wpc' = "raised"
               /\ gen' = gen
               /\ yielded' = yielded
               /\ sleeps' = sleeps
               /\ retries' = retries
               /\ sleep_time' = sleep_time]_vars
    /\ [][(wpc = "raised" /\ calls' = calls)
            => /\ wpc' = "raised"
               /\ requests' = requests
               /\ sleeps' = sleeps
               /\ gen' = gen]_vars

\* C3's case: a non-transient failure ended a call that had retried before
C3_Witness ==
    /\ wpc = "raised"
    /\ outcome = "other"
    /\ retries >= 2

\* C4: every duration the wrapper sleeps for is at most max_wait_time.
C4_SleepWithinCeiling ==
    wpc = "sleep" => LeqCeiling(sleep_time, max_wait_time)

\* C5: for every ceiling, the values fibonacci_wait_times yields are
\* non-negative and none is smaller than the one before it.
C5_WaitsMonotone ==
    \A i \in 1 .. Len(yielded) :
        /\ yielded[i] >= 0
        /\ i > 1 => yielded[i - 1] <= yielded[i]

\* C5's case: under the ceiling 3 the generator grew to 3 and froze there
C5_Witness ==
    /\ max_wait_time = Finite(3)
    /\ Len(yielded) >= 7
    /\ SubSeq(yielded, 1, 7) = <<0, 1, 1, 2, 3, 3, 3>>

\* the segments of a reply's content that are capability invocations
ToolUses(content) == SelectSeq(content, LAMBDA b : b.type = "tool_use")

Registered == {"get_weather", "get_facts"}

WellFormedUrl(u) ==
    \E k \in 0 .. Len(u) : u = UrlPrefix \o SubSeq(u, k + 1, Len(u))

BadArguments == Len(argv) # 2 \/ ~WellFormedUrl(argv[2])

UsageErrors == {"Error: Please provide a valid YouTube URL as a command line argument.",
                "Error: Invalid YouTube URL format."}

\* C9: started with a number of arguments other than one, or with one that
\* does not start with the prefix, the summarizer makes no caption download
\* and no request, and once it has moved it has logged an error and exited
\* with status 1.
C9_BadArgumentsExit ==
    (pc # "idle" /\ pc # "harness" /\ BadArguments) =>
        /\ downloads = 0
        /\ requests = 0
        /\ calls = 0
        /\ pc \in {"start", "exited"}
        /\ pc = "exited" => (exit_status = 1 /\ log \cap UsageErrors # {})

\* C9's case: one argument that holds the prefix but does not start with it
C9_Witness ==
    /\ pc = "exited"
    /\ exit_status = 1
    /\ Len(argv) = 2
    /\ argv[2] = <<"see ", "https://www.youtube.com/", "watch?v=", "dQw4">>
    /\ log = {"Error: Invalid YouTube URL format."}

\* the caption source answered, and had no English track
NoEnglishCaptions ==
    /\ downloads > 0
    /\ res.kind = "None" \/ ~(\E it \in res.items : it[1] = "en" /\ it[2] # None)

\* C10: when the caption source reports no English captions main returns
\* and ask_claude is never invoked.
C10_NoCaptionsNoRequest ==
    NoEnglishCaptions =>
        /\ calls = 0
        /\ requests = 0
        /\ wpc = "idle"
        /\ pc \in {"got_captions", "exited"}
        /\ pc = "exited" => exit_status = 0

\* C10's case: no English captions, and the run is over
C10_Witness ==
    /\ pc = "exited"
    /\ NoEnglishCaptions
    /\ res = SubsNone
    /\ requests = 0

NoCaptionsError == "This YouTube video does not have any English captions"

\* C11 as claimed: started with a well-formed URL whose video has no English
\* captions, the summarizer logs an error and exits with a non-zero status.
C11_NoCaptionsExitsNonZero ==
    (pc = "exited" /\ ~BadArguments /\ NoEnglishCaptions) =>
        /\ NoCaptionsError \in log
        /\ exit_status # 0

\* the generator's frame after n calls of next() under the ceiling m
RECURSIVE GenAfter(_, _)
GenAfter(m, n) == IF n = 0 THEN GenFresh ELSE GenResume(GenAfter(m, n - 1), m)

\* the recurrence of a started generator no longer advances
Frozen(g, m) == g.started /\ ~LeqCeiling(g.b, m)

NonNegativeCeilings == {m \in Ceilings : ~m.inf /\ m.v >= 0}

\* C12 as claimed: for some non-negative ceiling there is a point, after the
\* recurrence has frozen, at which the generator emits a value strictly
\* greater than the ceiling. Stated over the ceilings and the points of the
\* model, in the states where the wrapper's generator has frozen.
C12_EmitsAboveCeiling ==
    Frozen(gen, max_wait_time) =>
        \E m \in NonNegativeCeilings : \E n \in 1 .. MaxRetries + 1 :
            /\ Frozen(GenAfter(m, n - 1), m)
            /\ GenAfter(m, n).a > m.v

\* C12: for every non-negative ceiling, no value the generator emits, before
\* or after its recurrence has frozen, is greater than the ceiling.
C12_NeverAboveCeiling ==
    /\ max_wait_time \in NonNegativeCeilings =>
          /\ \A i \in 1 .. Len(yielded) : yielded[i] <= max_wait_time.v
          /\ gen.a <= max_wait_time.v
    /\ \A m \in NonNegativeCeilings : \A n \in 0 .. MaxRetries + 1 :
          GenAfter(m, n).a <= m.v

\* C12's case: under the ceiling 2 the recurrence froze at (2, 3) and the
\* generator has emitted twice since
C12_Witness ==
    /\ max_wait_time = Finite(2)
    /\ Frozen(gen, max_wait_time)
    /\ Len(yielded) >= 6
    /\ yielded[5] = 2
    /\ yielded[6] = 2

\* the Fibonacci numbers: Fib(0) = 0, Fib(1) = 1, Fib(n + 2) = Fib(n) + Fib(n + 1)
RECURSIVE FibFrom(_, _, _)
FibFrom(n, x, y) == IF n = 0 THEN x ELSE FibFrom(n - 1, y, x + y)

Fib(n) == FibFrom(n, 0, 1)

\* the index of the last Fibonacci number whose successor does not exceed
\* the ceiling c: Fib(k) is within c, or k = 0, and Fib(k + 1) is above it
FreezeIndex(c) ==
    CHOOSE k \in 0 .. MaxRetries + 2 :
        /\ k = 0 \/ Fib(k) <= c
        /\ Fib(k + 1) > c

\* the k-th value (k >= 1) of the backoff sequence under the ceiling m
Backoff(m, k) ==
    IF m.inf \/ k - 1 <= FreezeIndex(m.v) THEN Fib(k - 1) ELSE Fib(FreezeIndex(m.v))

\* C13: for every non-negative integer ceiling the values emitted are the
\* Fibonacci numbers 0, 1, 1, 2, 3, 5, ... in order for as long as the next
\* one does not exceed the ceiling; from then on (a, b) stays what it was
\* and the same last value is emitted again and again.
C13_FibonacciThenFrozen ==
    max_wait_time \in NonNegativeCeilings =>
        LET c == max_wait_time.v
            K == FreezeIndex(c)
            n == Len(yielded)
        IN  /\ \A i \in 1 .. n :
                  yielded[i] = IF Fib(i - 1) <= c THEN Fib(i - 1) ELSE Fib(K)
            /\ gen.started <=> n >= 1
            /\ (gen.started /\ n - 1 < K) =>
                  (gen.a = Fib(n - 1) /\ gen.b = Fib(n))
            /\ (gen.started /\ n - 1 >= K) =>
                  (gen.a = Fib(K) /\ gen.b = Fib(K + 1) /\ Frozen(gen, max_wait_time))

\* C13's case: under the ceiling 60 the generator was drawn from 13 times
C13_Witness ==
    /\ max_wait_time = Finite(60)
    /\ yielded = <<0, 1, 1, 2, 3, 5, 8, 13, 21, 34, 55, 55, 55>>
    /\ gen.a = 55
    /\ gen.b = 89

\* C14: the backoff state belongs to one call of the wrapped function: in
\* every call the generator is what a fresh one is after as many draws as
\* that call has had transient failures, so the first failure of every call
\* draws 0 from the state (0, 1), whatever the earlier calls went through.
C14_FreshBackoffPerCall ==
    calls >= 1 =>
        /\ gen = GenAfter(max_wait_time, retries)
        /\ retries = 0 => gen = GenFresh
        /\ retries >= 1 => yielded[1] = 0
        /\ (wpc = "sleep" /\ retries = 1) =>
              /\ gen.a = 0 /\ gen.b = 1
              /\ sleep_time \in {RateLimitSleepTime(0), ServerErrorSleepTime(0)}

\* C14's case: the first call failed four times before it ended, and the
\* second call sleeps 0 s after its first rate-limit failure
C14_Witness ==
    /\ calls = 2
    /\ requests >= 6
    /\ retries = 1
    /\ wpc = "sleep"
    /\ outcome = "rate_limit"
    /\ sleep_time = 0
    /\ max_wait_time = Finite(AskClaudeMaxWait)

\* C15: within one call the k-th transient failure, of either kind, sleeps
\* the k-th value of the backoff sequence when it is a rate-limit failure
\* and that value plus 30 when it is a server failure; a wait after a
\* rate-limit failure is therefore at least every value drawn before it in
\* the call, whatever kinds the earlier failures were of.
C15_KthFailureKthBackoff ==
    wpc = "sleep" =>
        /\ retries >= 1
        /\ Len(yielded) = retries
        /\ yielded[retries] = Backoff(max_wait_time, retries)
        /\ outcome \in {"rate_limit", "server_error"}
        /\ outcome = "rate_limit" =>
              /\ sleep_time = Backoff(max_wait_time, retries)
              /\ \A j \in 1 .. retries : yielded[j] <= sleep_time
        /\ outcome = "server_error" =>
              sleep_time = Backoff(max_wait_time, retries) + 30

\* C15's case: the seventh failure of a call under the ceiling 60 is a
\* server failure, and the wrapper sleeps 8 + 30 s
C15_Witness ==
    /\ wpc = "sleep"
    /\ max_wait_time = Finite(AskClaudeMaxWait)
    /\ retries = 7
    /\ outcome = "server_error"
    /\ yielded[7] = 8
    /\ sleep_time = 38

\* C16: for every reply whose stop reason is tool_use and that holds a
\* capability invocation, once main has handled it handle_tool_use was
\* called for the first invocation of the reply, whether the reply holds a
\* text segment or not, and main did not end with the StopIteration of a
\* search that found nothing.
C16_DispatchesWithoutText ==
    (/\ response.stop_reason = "tool_use"
     /\ tpc # "reply"
     /\ ToolUses(response.content) # <<>>) =>
        /\ error # "StopIteration"
        /\ tool_calls # <<>>
        /\ Last(tool_calls).id = Head(ToolUses(response.content)).id

\* the key a registered capability reads from its input
RequiredKey(name) == IF name = "get_weather" THEN "location" ELSE "topic"

C18_EveryIterationCallsAskClaude ==
    tpc \in {"retries_sleep", "crashed"} =>
        /\ sent # <<>>
        /\ tu_sleeps < MaxSleeps => Len(sent) > tu_sleeps

\* the roles are user, assistant, user, assistant, ...
Alternates(turns) ==
    \A i \in 1 .. Len(turns) :
        turns[i].role = IF i % 2 = 1 THEN "user" ELSE "assistant"

\* an assistant turn that asks for a capability
AsksForTool(turn) ==
    turn.role = "assistant" /\ ToolUses(turn.content.blocks) # <<>>

\* a user turn that carries exactly one tool_result
OneToolResult(turn) ==
    /\ turn.role = "user"
    /\ turn.content.kind = "list"
    /\ Len(turn.content.blocks) = 1
    /\ turn.content.blocks[1].type = "tool_result"

\* C19 as claimed: in every state the turn sequence of main alternates
\* roles starting with user, every assistant turn that asks for a capability
\* is immediately followed by a user turn carrying exactly one tool_result,
\* and each request sent ends with a user turn.
C19_TurnSequenceWellFormed ==
    /\ Alternates(heap[messages])
    /\ \A i \in 1 .. Len(heap[messages]) :
         AsksForTool(heap[messages][i]) =>
            /\ i < Len(heap[messages])
            /\ OneToolResult(heap[messages][i + 1])
    /\ \A k \in 1 .. Len(sent) : Last(sent[k].turns).role = "user"

\* C19: in every state every list of turns alternates roles starting with
\* user; each request sent ends with a user turn, and in it every assistant
\* turn that asks for a capability is immediately followed by a user turn
\* carrying exactly one tool_result, that of the first invocation asked
\* for. In main's own sequence this holds of every such turn but the last
\* one: the sequence ends with it from the append of line 169 until the
\* next request is built, and for good when the dispatch raises.
C19_TurnsAlternateAndAnswered ==
    /\ \A l \in 1 .. Len(heap) : Alternates(heap[l])
    /\ \A k \in 1 .. Len(sent) :
         LET turns == sent[k].turns
         IN  /\ Last(turns).role = "user"
             /\ \A i \in 1 .. Len(turns) :
                  AsksForTool(turns[i]) =>
                     /\ i < Len(turns)
                     /\ OneToolResult(turns[i + 1])
                     /\ turns[i + 1].content.blocks[1].tool_use_id
                            = Head(ToolUses(turns[i].content.blocks)).id
    /\ \A i \in 1 .. Len(heap[messages]) - 1 :
         AsksForTool(heap[messages][i]) => OneToolResult(heap[messages][i + 1])
    /\ (heap[messages] # <<>> /\ AsksForTool(Last(heap[messages]))) =>
         tpc \in {"loop", "retries_try", "retries_sleep", "crashed"}

\* C19's case: two capabilities were asked for and answered, and the third
\* reply ended the loop
C19_Witness ==
    /\ tpc = "done"
    /\ Len(heap[messages]) = 6
    /\ AsksForTool(heap[messages][2])
    /\ AsksForTool(heap[messages][4])
    /\ OneToolResult(heap[messages][5])

\* the identifiers of the capability invocations of a content
ToolUseIds(content) == {content[j].id : j \in {n \in 1 .. Len(content) : content[n].type = "tool_use"}}

\* C20: for every tool-use reply main has handled, handle_tool_use was
\* called exactly once, for the first capability invocation of the reply;
\* the later invocations of the reply were never executed, and no request
\* carries a tool_result for their identifiers.
C20_ExactlyFirstCapabilityRuns ==
    \A i \in 1 .. Len(heap[messages]) :
        AsksForTool(heap[messages][i]) =>
            LET content == heap[messages][i].content.blocks
                first == Head(ToolUses(content)).id
                made == {n \in 1 .. Len(tool_calls) :
                            tool_calls[n].id \in ToolUseIds(content)}
            IN  /\ Cardinality(made) = 1
                /\ \A n \in made : tool_calls[n].id = first
                /\ \A k \in 1 .. Len(sent) : \A n \in 1 .. Len(sent[k].turns) :
                      \A b \in 1 .. Len(sent[k].turns[n].content.blocks) :
                        LET blk == sent[k].turns[n].content.blocks[b]
                        IN  blk.type = "tool_result" =>
                               blk.tool_use_id \notin ToolUseIds(content) \ {first}

====
